---- MODULE Spec2Model ----
(***************************************************************************)
(* vagg: the streaming record generator (src/src/generation.rs) and the    *)
(* chunked columnar batch builder (src/src/main.rs, row_array_stream).     *)
(*                                                                         *)
(* A pipeline is one call of row_array_stream(num_rows): an async stream   *)
(* whose body pulls generate_logs(num_rows).chunks(CHUNK_SIZE), appends    *)
(* every row of a chunk to eight column builders and yields one            *)
(* StructArray per chunk.  All of it runs inside the consumer's poll: the  *)
(* stream only advances between a pull and the item that answers it.       *)
(***************************************************************************)
EXTENDS Integers, Sequences, FiniteSets, TLC

(***************************************************************************)
(* Bounds of the model.  CHUNK_SIZE is 100_000 in the source and the row   *)
(* count 100_000_000; the model draws both from small ranges.              *)
(***************************************************************************)
MaxRows == 5

MaxChunk == 3

PairMaxRows == 2

PairMaxChunk == 2

\* Rows of the two pipelines of a pair together.
PairMaxTotal == 4

MaxEndPolls == 1

SmallMaxRows == 4

SmallMaxChunk == 2

MaxCount == 1

MaxProbeId == 1470

(***************************************************************************)
(* generation.rs: the fixed lookup tables.                                 *)
(***************************************************************************)
MESSAGES ==
  << "The research team discovered a new species of deep-sea creature while conducting experiments near hydrothermal vents in the dark ocean depths.",
     "The research facility analyzed samples from ancient artifacts, revealing breakthrough findings about civilizations lost to the depths of time.",
     "The research station monitored weather patterns across mountain peaks, collecting data about atmospheric changes in the remote depths below.",
     "The research observatory captured images of stellar phenomena, peering into the cosmic depths to understand the mysteries of distant galaxies.",
     "The research laboratory processed vast amounts of genetic data, exploring the molecular depths of DNA to unlock biological secrets.",
     "The research center studied rare organisms found in ocean depths, documenting new species thriving in extreme underwater environments.",
     "The research institute developed quantum systems to probe subatomic depths, advancing our understanding of fundamental particle physics.",
     "The research expedition explored underwater depths near volcanic vents, discovering unique ecosystems adapted to extreme conditions.",
     "The research facility conducted experiments in the depths of space, testing how different materials behave in zero gravity environments.",
     "The research team engineered crops that could grow in the depths of drought conditions, helping communities facing climate challenges." >>

MESSAGE_CHARS ==
  << <<"T","h","e"," ","r","e","s","e","a","r","c","h"," ","t","e","a","m"," ","d","i","s","c","o","v","e","r","e","d"," ","a"," ","n","e","w"," ","s","p","e","c","i","e","s"," ","o","f"," ","d","e","e","p","-","s","e","a"," ","c","r","e","a","t","u","r","e"," ","w","h","i","l","e"," ","c","o","n","d","u","c","t","i","n","g"," ","e","x","p","e","r","i","m","e","n","t","s"," ","n","e","a","r"," ","h","y","d","r","o","t","h","e","r","m","a","l"," ","v","e","n","t","s"," ","i","n"," ","t","h","e"," ","d","a","r","k"," ","o","c","e","a","n"," ","d","e","p","t","h","s",".">>,
     <<"T","h","e"," ","r","e","s","e","a","r","c","h"," ","f","a","c","i","l","i","t","y"," ","a","n","a","l","y","z","e","d"," ","s","a","m","p","l","e","s"," ","f","r","o","m"," ","a","n","c","i","e","n","t"," ","a","r","t","i","f","a","c","t","s",","," ","r","e","v","e","a","l","i","n","g"," ","b","r","e","a","k","t","h","r","o","u","g","h"," ","f","i","n","d","i","n","g","s"," ","a","b","o","u","t"," ","c","i","v","i","l","i","z","a","t","i","o","n","s"," ","l","o","s","t"," ","t","o"," ","t","h","e"," ","d","e","p","t","h","s"," ","o","f"," ","t","i","m","e",".">>,
     <<"T","h","e"," ","r","e","s","e","a","r","c","h"," ","s","t","a","t","i","o","n"," ","m","o","n","i","t","o","r","e","d"," ","w","e","a","t","h","e","r"," ","p","a","t","t","e","r","n","s"," ","a","c","r","o","s","s"," ","m","o","u","n","t","a","i","n"," ","p","e","a","k","s",","," ","c","o","l","l","e","c","t","i","n","g"," ","d","a","t","a"," ","a","b","o","u","t"," ","a","t","m","o","s","p","h","e","r","i","c"," ","c","h","a","n","g","e","s"," ","i","n"," ","t","h","e"," ","r","e","m","o","t","e"," ","d","e","p","t","h","s"," ","b","e","l","o","w",".">>,
     <<"T","h","e"," ","r","e","s","e","a","r","c","h"," ","o","b","s","e","r","v","a","t","o","r","y"," ","c","a","p","t","u","r","e","d"," ","i","m","a","g","e","s"," ","o","f"," ","s","t","e","l","l","a","r"," ","p","h","e","n","o","m","e","n","a",","," ","p","e","e","r","i","n","g"," ","i","n","t","o"," ","t","h","e"," ","c","o","s","m","i","c"," ","d","e","p","t","h","s"," ","t","o"," ","u","n","d","e","r","s","t","a","n","d"," ","t","h","e"," ","m","y","s","t","e","r","i","e","s"," ","o","f"," ","d","i","s","t","a","n","t"," ","g","a","l","a","x","i","e","s",".">>,
     <<"T","h","e"," ","r","e","s","e","a","r","c","h"," ","l","a","b","o","r","a","t","o","r","y"," ","p","r","o","c","e","s","s","e","d"," ","v","a","s","t"," ","a","m","o","u","n","t","s"," ","o","f"," ","g","e","n","e","t","i","c"," ","d","a","t","a",","," ","e","x","p","l","o","r","i","n","g"," ","t","h","e"," ","m","o","l","e","c","u","l","a","r"," ","d","e","p","t","h","s"," ","o","f"," ","D","N","A"," ","t","o"," ","u","n","l","o","c","k"," ","b","i","o","l","o","g","i","c","a","l"," ","s","e","c","r","e","t","s",".">>,
     <<"T","h","e"," ","r","e","s","e","a","r","c","h"," ","c","e","n","t","e","r"," ","s","t","u","d","i","e","d"," ","r","a","r","e"," ","o","r","g","a","n","i","s","m","s"," ","f","o","u","n","d"," ","i","n"," ","o","c","e","a","n"," ","d","e","p","t","h","s",","," ","d","o","c","u","m","e","n","t","i","n","g"," ","n","e","w"," ","s","p","e","c","i","e","s"," ","t","h","r","i","v","i","n","g"," ","i","n"," ","e","x","t","r","e","m","e"," ","u","n","d","e","r","w","a","t","e","r"," ","e","n","v","i","r","o","n","m","e","n","t","s",".">>,
     <<"T","h","e"," ","r","e","s","e","a","r","c","h"," ","i","n","s","t","i","t","u","t","e"," ","d","e","v","e","l","o","p","e","d"," ","q","u","a","n","t","u","m"," ","s","y","s","t","e","m","s"," ","t","o"," ","p","r","o","b","e"," ","s","u","b","a","t","o","m","i","c"," ","d","e","p","t","h","s",","," ","a","d","v","a","n","c","i","n","g"," ","o","u","r"," ","u","n","d","e","r","s","t","a","n","d","i","n","g"," ","o","f"," ","f","u","n","d","a","m","e","n","t","a","l"," ","p","a","r","t","i","c","l","e"," ","p","h","y","s","i","c","s",".">>,
     <<"T","h","e"," ","r","e","s","e","a","r","c","h"," ","e","x","p","e","d","i","t","i","o","n"," ","e","x","p","l","o","r","e","d"," ","u","n","d","e","r","w","a","t","e","r"," ","d","e","p","t","h","s"," ","n","e","a","r"," ","v","o","l","c","a","n","i","c"," ","v","e","n","t","s",","," ","d","i","s","c","o","v","e","r","i","n","g"," ","u","n","i","q","u","e"," ","e","c","o","s","y","s","t","e","m","s"," ","a","d","a","p","t","e","d"," ","t","o"," ","e","x","t","r","e","m","e"," ","c","o","n","d","i","t","i","o","n","s",".">>,
     <<"T","h","e"," ","r","e","s","e","a","r","c","h"," ","f","a","c","i","l","i","t","y"," ","c","o","n","d","u","c","t","e","d"," ","e","x","p","e","r","i","m","e","n","t","s"," ","i","n"," ","t","h","e"," ","d","e","p","t","h","s"," ","o","f"," ","s","p","a","c","e",","," ","t","e","s","t","i","n","g"," ","h","o","w"," ","d","i","f","f","e","r","e","n","t"," ","m","a","t","e","r","i","a","l","s"," ","b","e","h","a","v","e"," ","i","n"," ","z","e","r","o"," ","g","r","a","v","i","t","y"," ","e","n","v","i","r","o","n","m","e","n","t","s",".">>,
     <<"T","h","e"," ","r","e","s","e","a","r","c","h"," ","t","e","a","m"," ","e","n","g","i","n","e","e","r","e","d"," ","c","r","o","p","s"," ","t","h","a","t"," ","c","o","u","l","d"," ","g","r","o","w"," ","i","n"," ","t","h","e"," ","d","e","p","t","h","s"," ","o","f"," ","d","r","o","u","g","h","t"," ","c","o","n","d","i","t","i","o","n","s",","," ","h","e","l","p","i","n","g"," ","c","o","m","m","u","n","i","t","i","e","s"," ","f","a","c","i","n","g"," ","c","l","i","m","a","t","e"," ","c","h","a","l","l","e","n","g","e","s",".">> >>

COUNTRIES ==
  << "United States", "Canada", "United Kingdom", "France", "Germany",
     "Japan", "Australia", "Brazil", "India", "China" >>

LABELS ==
  << "critical system alert", "routine maintenance", "security notification",
     "performance metric", "user activity", "system status", "network event",
     "application log", "database operation", "authentication event" >>

\* let base_timestamp: u64 = 1577836800;   ('2020-01-01')
base_timestamp == 1577836800

I32_MAX == 2147483647

\* `x as i32` of a usize x: the low 32 bits, read as two's complement.
\* (TLC's integers end at 2^31 - 1, so 2^32 is written as a sum.)
AsI32(x) == IF x <= I32_MAX THEN x ELSE x - I32_MAX - I32_MAX - 2

\* `num_rows as usize`: usize is at least 16 bits wide on every Rust target
\* and the row counts of this model stay below 2^16, where the cast keeps
\* the value.
AsUsize(x) == x % 65536

\* serde_json::to_string(&Metadata { value, label }): the derived Serialize
\* writes the fields in declaration order, compact, strings quoted.
to_string(value, label) ==
  "{\"value\":" \o ToString(value) \o ",\"label\":\"" \o label \o "\"}"

\* TableAt with the index taken one too far.
TableAt_OffByOne(table, i) == table[((i + 1) % Len(table)) + 1]

\* The table lookups MESSAGES[i % MESSAGES.len()] etc. (Rust slices are
\* 0-based, TLA+ tuples 1-based.)
TableAt(table, i) == table[(i % Len(table)) + 1]

\* Severity without the + 1.
Severity_ZeroBased(i) == AsI32(i % 5)

Severity(i) == AsI32(i % 5) + 1

MetadataValue(i) == AsI32(i % 1000) + 1

\* Timestamp with the day count not reduced modulo 731.
Timestamp_NoWrap(i) == base_timestamp + (86400 * i)

Timestamp(i) == base_timestamp + (86400 * (i % 731))

\* The BenchmarkLog that loop iteration i of generate_logs yields.
LogRecord(i) ==
  [ id        |-> i,
    message   |-> TableAt(MESSAGES, i),
    country   |-> TableAt(COUNTRIES, i),
    severity  |-> Severity(i),
    timestamp |-> Timestamp(i),
    metadata  |-> to_string(MetadataValue(i), TableAt(LABELS, i)) ]

(***************************************************************************)
(* main.rs: the schema of row_array_stream.                                *)
(***************************************************************************)
FieldNames ==
  << "id", "message", "message_matches_research", "message_matches_team",
     "country", "severity", "timestamp", "metadata" >>

\* builder_with_capacity for every field dtype: eight empty columns.
NewBuilders == [k \in 1..Len(FieldNames) |-> << >>]

\* RowValues with message and country in each other's place.
RowValues_Swapped(row, mr, mt) ==
  << row.id, row.country, mr, mt, row.message, row.severity, row.timestamp,
     row.metadata >>

\* The eight values the loop body appends for one row, in schema order.
\* BenchmarkLog declares no message_matches_research and no
\* message_matches_team field; what the two reads give is not fixed by the
\* source, so they are inputs mr and mt of the step.
RowValues(row, mr, mt) ==
  << row.id, row.message, mr, mt, row.country, row.severity, row.timestamp,
     row.metadata >>

\* AppendValues writing each value at the front of its column.
\* No builders: before the first chunk, and after builders.into_iter() has
\* moved them into the StructArray.
NoBuilders == << >>

AppendValues_Prepend(b, vals) == [k \in 1..Len(b) |-> << vals[k] >> \o b[k]]

AppendValues(b, vals) == [k \in 1..Len(b) |-> Append(b[k], vals[k])]

\* StructArray::try_new_with_dtype(columns, fields, chunk_len, NonNullable)
StructArray(columns, len) ==
  [ names |-> FieldNames, columns |-> columns, len |-> len ]

Streams == {1, 2}

VARIABLES
  num_rows,    \* argument of row_array_stream, per pipeline
  chunk_size,  \* CHUNK_SIZE, per pipeline
  pc,          \* where the stream body of row_array_stream stands
  gen_i,       \* generate_logs: the loop variable i
  gen_done,    \* generate_logs: the loop has ended
  yielded,     \* history: the records generate_logs has yielded
  items,       \* Chunks: the records buffered for the next chunk
  chunk,       \* rows of the current chunk not yet appended
  chunk_len,   \* chunk.len() of the current chunk
  builders,    \* the eight column builders of the current chunk
  received,    \* history: the batches handed to the consumer
  pulls,       \* history: the consumer's pulls that reached the stream body
  end_polls,   \* pulls made after the stream had ended
  probe_id,    \* generate_logs loop body alone: the index
  probe_rec,   \* generate_logs loop body alone: its record
  cast_bits,   \* `as usize` alone: the width of usize on the target
  cast_in,     \* `as usize` alone: the u64 that is cast
  cast_out,    \* `as usize` alone: the result
  query,       \* run_queries: index of the query being run
  count,       \* run_query: the result count of the first run
  results,     \* history: the result counts of the current query's runs
  printed,     \* history: the queries whose summary line was printed
  bench_pc     \* where run_queries stands

castVars == << cast_bits, cast_in, cast_out >>

benchVars == << query, count, results, printed, bench_pc >>

vars ==
  << num_rows, chunk_size, pc, gen_i, gen_done, yielded, items, chunk,
     chunk_len, builders, received, pulls, end_polls, probe_id, probe_rec,
     castVars, benchVars >>

pipeVars ==
  << num_rows, chunk_size, pc, gen_i, gen_done, yielded, items, chunk,
     chunk_len, builders, received, pulls, end_polls >>

NoRecord == [ id |-> -1 ]

\* No cast under test.
CastIdle ==
  /\ cast_bits = 64
  /\ cast_in = << 0, 0, 0, 0 >>
  /\ cast_out = << >>

\* main has not reached run_queries.
BenchIdle ==
  /\ query = 0
  /\ count = << >>
  /\ results = << >>
  /\ printed = << >>
  /\ bench_pc = "idle"

\* A pipeline that was never created: it has no rows and is never pulled.
Idle(s) == num_rows[s] = 0 /\ chunk_size[s] = 1

InitPipes(rows, sizes) ==
  /\ num_rows \in [Streams -> rows]
  /\ chunk_size \in [Streams -> sizes]
  /\ pc = [s \in Streams |-> "start"]
  /\ gen_i = [s \in Streams |-> 0]
  /\ gen_done = [s \in Streams |-> FALSE]
  /\ yielded = [s \in Streams |-> << >>]
  /\ items = [s \in Streams |-> << >>]
  /\ chunk = [s \in Streams |-> << >>]
  /\ chunk_len = [s \in Streams |-> 0]
  /\ builders = [s \in Streams |-> NoBuilders]
  /\ received = [s \in Streams |-> << >>]
  /\ pulls = [s \in Streams |-> 0]
  /\ end_polls = [s \in Streams |-> 0]

\* One pipeline, row_array_stream(n) with chunk size C.
Init ==
  /\ InitPipes(0..MaxRows, 1..MaxChunk)
  /\ Idle(2)
  /\ probe_id = 0
  /\ probe_rec = NoRecord
  /\ CastIdle
  /\ BenchIdle

\* Pull without the capacity assertion of Chunks::new.
Pull_NoAssert(s) ==
  /\ pc[s] \in {"start", "suspended"}
  /\ pc' = [pc EXCEPT ![s] = "polling"]
  /\ pulls' = [pulls EXCEPT ![s] = @ + 1]
  /\ UNCHANGED << num_rows, chunk_size, gen_i, gen_done, yielded, items,
                  chunk, chunk_len, builders, received, end_polls,
                  probe_id, probe_rec, castVars, benchVars >>

(***************************************************************************)
(* The consumer polls the stream (ArrayStream::poll_next): the body runs   *)
(* from where it was suspended -- its start, or the yield of the previous  *)
(* batch -- to `chunks.next().await`.  The first poll makes the Chunks      *)
(* adapter on its way, which takes a capacity of at least 1.               *)
(***************************************************************************)
Pull(s) ==
  /\ pc[s] \in {"start", "suspended"}
  /\ chunk_size[s] >= 1
  /\ pc' = [pc EXCEPT ![s] = "polling"]
  /\ pulls' = [pulls EXCEPT ![s] = @ + 1]
  /\ UNCHANGED << num_rows, chunk_size, gen_i, gen_done, yielded, items,
                  chunk, chunk_len, builders, received, end_polls,
                  probe_id, probe_rec, castVars, benchVars >>

\* Chunks hands a chunk to `while let Some(chunk)`: lines 102-106 make the
\* builders and take chunk.len().
StartChunk(s, c) ==
  /\ chunk' = [chunk EXCEPT ![s] = c]
  /\ chunk_len' = [chunk_len EXCEPT ![s] = Len(c)]
  /\ builders' = [builders EXCEPT ![s] = NewBuilders]
  /\ items' = [items EXCEPT ![s] = << >>]
  /\ pc' = [pc EXCEPT ![s] = "building"]

\* GenHasNext with an inclusive range, 0..=n.
GenHasNext_Inclusive(s) == ~gen_done[s] /\ gen_i[s] <= AsUsize(num_rows[s])

\* for i in 0..(num_rows as usize): is there another iteration?
GenHasNext(s) == ~gen_done[s] /\ gen_i[s] < AsUsize(num_rows[s])

\* generate_logs with the country taken by a counter that all calls share.
generate_logs_SharedCounter(s) ==
  [LogRecord(gen_i[s]) EXCEPT !.country = TableAt(COUNTRIES, gen_i[1] + gen_i[2])]

\* One iteration of the loop of generate_logs: the record it yields.  The
\* stream reads nothing but its own loop variable.
generate_logs(s) == LogRecord(gen_i[s])

\* ChunkFull with the comparison off by one.
ChunkFull_Greater(buf, cap) == Len(buf) > cap

\* Chunks::poll_next: the buffer is handed out when items.len() >= cap.
ChunkFull(buf, cap) == Len(buf) >= cap

\* Chunks polls generate_logs and gets a record: the loop body of
\* generation.rs:67-89 runs once, the record is pushed to the buffer, and
\* a full buffer becomes the next chunk.
ChunksPush(s) ==
  /\ pc[s] = "polling"
  /\ GenHasNext(s)
  /\ LET rec == generate_logs(s)
         buf == Append(items[s], rec)
     IN  /\ gen_i' = [gen_i EXCEPT ![s] = @ + 1]
         /\ yielded' = [yielded EXCEPT ![s] = Append(@, rec)]
         /\ IF ChunkFull(buf, chunk_size[s])
              THEN StartChunk(s, buf)
              ELSE /\ items' = [items EXCEPT ![s] = buf]
                   /\ UNCHANGED << pc, chunk, chunk_len, builders >>
  /\ UNCHANGED << num_rows, chunk_size, gen_done, received, pulls,
                  end_polls, probe_id, probe_rec, castVars, benchVars >>

\* ChunksEnd handing out the buffer even when it is empty.
ChunksEnd_EmptyChunk(s) ==
  /\ pc[s] = "polling"
  /\ ~GenHasNext(s)
  /\ gen_done' = [gen_done EXCEPT ![s] = TRUE]
  /\ StartChunk(s, items[s])
  /\ UNCHANGED << num_rows, chunk_size, gen_i, yielded, received, pulls,
                  end_polls, probe_id, probe_rec, castVars, benchVars >>

\* ChunksEnd with the short last chunk dropped instead of handed out.
ChunksEnd_DropsShort(s) ==
  /\ pc[s] = "polling"
  /\ ~GenHasNext(s)
  /\ gen_done' = [gen_done EXCEPT ![s] = TRUE]
  /\ pc' = [pc EXCEPT ![s] = "done"]
  /\ UNCHANGED << items, chunk, chunk_len, builders >>
  /\ UNCHANGED << num_rows, chunk_size, gen_i, yielded, received, pulls,
                  end_polls, probe_id, probe_rec, castVars, benchVars >>

\* ChunksEnd that, with nothing left to hand out, stays pending for ever
\* instead of ending the stream.
ChunksEnd_Hangs(s) ==
  /\ pc[s] = "polling"
  /\ ~GenHasNext(s)
  /\ gen_done' = [gen_done EXCEPT ![s] = TRUE]
  /\ IF items[s] # << >>
       THEN StartChunk(s, items[s])
       ELSE UNCHANGED << pc, items, chunk, chunk_len, builders >>
  /\ UNCHANGED << num_rows, chunk_size, gen_i, yielded, received, pulls,
                  end_polls, probe_id, probe_rec, castVars, benchVars >>

\* Chunks polls generate_logs and the loop has ended (or ended before:
\* Chunks fuses its stream).  A non-empty buffer is the last, short chunk;
\* with an empty buffer Chunks ends, `while let` ends and so does the
\* batch stream.
ChunksEnd(s) ==
  /\ pc[s] = "polling"
  /\ ~GenHasNext(s)
  /\ gen_done' = [gen_done EXCEPT ![s] = TRUE]
  /\ IF items[s] # << >>
       THEN StartChunk(s, items[s])
       ELSE /\ pc' = [pc EXCEPT ![s] = "done"]
            /\ UNCHANGED << items, chunk, chunk_len, builders >>
  /\ UNCHANGED << num_rows, chunk_size, gen_i, yielded, received, pulls,
                  end_polls, probe_id, probe_rec, castVars, benchVars >>

\* for row in chunk { builders[k].append_scalar_value(...)?; }  one row.
AppendRow(s) ==
  /\ pc[s] = "building"
  /\ chunk[s] # << >>
  /\ \E mr, mt \in BOOLEAN :
       builders' = [builders EXCEPT
                      ![s] = AppendValues(@, RowValues(Head(chunk[s]), mr, mt))]
  /\ chunk' = [chunk EXCEPT ![s] = Tail(@)]
  /\ UNCHANGED << num_rows, chunk_size, pc, gen_i, gen_done, yielded, items,
                  chunk_len, received, pulls, end_polls, probe_id, probe_rec,
                  castVars, benchVars >>

\* YieldBatch that goes on to the next chunk without being polled again.
YieldBatch_NoSuspend(s) ==
  /\ pc[s] = "building"
  /\ chunk[s] = << >>
  /\ received' = [received EXCEPT
                    ![s] = Append(@, StructArray(builders[s], chunk_len[s]))]
  /\ builders' = [builders EXCEPT ![s] = NoBuilders]
  /\ pc' = [pc EXCEPT ![s] = "polling"]
  /\ UNCHANGED << num_rows, chunk_size, gen_i, gen_done, yielded, items,
                  chunk, chunk_len, pulls, end_polls, probe_id, probe_rec,
                  castVars, benchVars >>

\* yield Ok(StructArray::try_new_with_dtype(...).into_array()): the batch
\* goes to the consumer and the body is suspended at the yield.
YieldBatch(s) ==
  /\ pc[s] = "building"
  /\ chunk[s] = << >>
  /\ received' = [received EXCEPT
                    ![s] = Append(@, StructArray(builders[s], chunk_len[s]))]
  /\ builders' = [builders EXCEPT ![s] = NoBuilders]
  /\ pc' = [pc EXCEPT ![s] = "suspended"]
  /\ UNCHANGED << num_rows, chunk_size, gen_i, gen_done, yielded, items,
                  chunk, chunk_len, pulls, end_polls, probe_id, probe_rec,
                  castVars, benchVars >>

\* A poll of the ended stream: async_stream answers None without running
\* the body.
PullAfterEnd(s) ==
  /\ pc[s] = "done"
  /\ end_polls[s] < MaxEndPolls
  /\ end_polls' = [end_polls EXCEPT ![s] = @ + 1]
  /\ UNCHANGED << num_rows, chunk_size, pc, gen_i, gen_done, yielded, items,
                  chunk, chunk_len, builders, received, pulls,
                  probe_id, probe_rec, castVars, benchVars >>

\* What one pipeline can do while its consumer pulls.
Step(s) ==
  \/ Pull(s)
  \/ ChunksPush(s)
  \/ ChunksEnd(s)
  \/ AppendRow(s)
  \/ YieldBatch(s)

Next == Step(1) \/ PullAfterEnd(1)

Spec == Init /\ [][Next]_vars

(***************************************************************************)
(* Two pipelines pulled in any interleaving (two calls of                  *)
(* row_array_stream, each with its own row count and chunk size), by       *)
(* consumers that stop polling at the end of the stream.                   *)
(***************************************************************************)
InitPair ==
  /\ InitPipes(0..PairMaxRows, 1..PairMaxChunk)
  /\ num_rows[1] + num_rows[2] <= PairMaxTotal
  /\ probe_id = 0
  /\ probe_rec = NoRecord
  /\ CastIdle
  /\ BenchIdle

NextPair == \E s \in Streams : Step(s)

SpecPair == InitPair /\ [][NextPair]_vars

(***************************************************************************)
(* The loop body of generate_logs as a function of the index alone: the    *)
(* record of one index, for indices far beyond the row counts a pipeline   *)
(* of the model can run.                                                    *)
(***************************************************************************)
InitFields ==
  /\ InitPipes({0}, {1})
  /\ probe_id \in 0..MaxProbeId
  /\ probe_rec = NoRecord
  /\ CastIdle
  /\ BenchIdle

Probe ==
  /\ probe_rec = NoRecord
  /\ probe_rec' = LogRecord(probe_id)
  /\ UNCHANGED << pipeVars, probe_id, castVars, benchVars >>

NextFields == Probe

SpecFields == InitFields /\ [][NextFields]_vars

(***************************************************************************)
(* Definitions the properties are stated with.                             *)
(***************************************************************************)
RECURSIVE SumLens(_)
SumLens(bs) == IF bs = << >> THEN 0 ELSE Head(bs).len + SumLens(Tail(bs))

RECURSIVE ConcatColumn(_, _)
ConcatColumn(bs, k) ==
  IF bs = << >> THEN << >>
  ELSE Head(bs).columns[k] \o ConcatColumn(Tail(bs), k)

CeilDiv(n, c) == (n + c - 1) \div c

Exhausted(s) == pc[s] = "done"

\* Records held by the pipeline: in the Chunks buffer, in the chunk being
\* appended, and in the builders.
BuilderRows(s) == IF builders[s] = NoBuilders THEN 0 ELSE Len(builders[s][1])

Buffered(s) == Len(items[s]) + Len(chunk[s]) + BuilderRows(s)

\* C1: pulled to exhaustion, the stream has yielded ceil(n / C) batches
\* whose row counts sum to n.
C1_BatchCountAndTotal ==
  Exhausted(1) =>
    /\ Len(received[1]) = CeilDiv(num_rows[1], chunk_size[1])
    /\ SumLens(received[1]) = num_rows[1]

C1_Witness ==
  /\ Exhausted(1)
  /\ num_rows[1] = 5
  /\ chunk_size[1] = 2
  /\ Len(received[1]) = 3
  /\ SumLens(received[1]) = 5

\* C2: every yielded batch but the last has exactly C rows; at exhaustion
\* the last one has n - C * (num_batches - 1) rows, which is n mod C when C
\* does not divide n and C when it does.
C2_BatchLengths ==
  LET bs == received[1]
      C  == chunk_size[1]
      n  == num_rows[1]
  IN  /\ \A k \in 1..Len(bs) : k < Len(bs) => bs[k].len = C
      /\ (Exhausted(1) /\ bs # << >>) =>
           /\ bs[Len(bs)].len = n - C * (Len(bs) - 1)
           /\ bs[Len(bs)].len = (IF n % C = 0 THEN C ELSE n % C)

C2_Witness ==
  /\ Exhausted(1)
  /\ num_rows[1] = 5
  /\ chunk_size[1] = 3
  /\ Len(received[1]) = 2
  /\ received[1][1].len = 3
  /\ received[1][2].len = 2

\* C3: row j of the k-th yielded batch (0-based) carries id k * C + j; at
\* exhaustion the id columns, concatenated, are 0, 1, ..., n-1.
C3_ChunkAndRowOrder ==
  LET bs == received[1]
      C  == chunk_size[1]
  IN  /\ \A k \in 1..Len(bs) : \A j \in 1..Len(bs[k].columns[1]) :
            bs[k].columns[1][j] = (k - 1) * C + (j - 1)
      /\ LET ids == ConcatColumn(bs, 1)
         IN  /\ \A a, b \in 1..Len(ids) : a < b => ids[a] < ids[b]
             /\ Exhausted(1) => ids = [x \in 1..num_rows[1] |-> x - 1]

C3_Witness ==
  /\ Exhausted(1)
  /\ chunk_size[1] = 2
  /\ ConcatColumn(received[1], 1) = << 0, 1, 2, 3, 4 >>
  /\ received[1][2].columns[1] = << 2, 3 >>

\* C4: generate_logs(n) yields the records with ids 0, 1, ..., n-1 in that
\* order, n of them, and then ends.
C4_GeneratedIds ==
  /\ Len(yielded[1]) <= num_rows[1]
  /\ \A k \in 1..Len(yielded[1]) : yielded[1][k].id = k - 1
  /\ gen_done[1] => Len(yielded[1]) = num_rows[1]
  /\ Exhausted(1) => gen_done[1]

C4_Witness ==
  /\ gen_done[1]
  /\ num_rows[1] = 5
  /\ Len(yielded[1]) = 5
  /\ yielded[1][5].id = 4

\* C5: with n = 0 the stream ends without a batch, and no yielded batch has
\* zero rows.
C5_NoEmptyBatch ==
  /\ \A k \in 1..Len(received[1]) :
        received[1][k].len > 0 /\ Len(received[1][k].columns[1]) > 0
  /\ num_rows[1] = 0 => received[1] = << >>

C5_Witness ==
  /\ num_rows[1] = 0
  /\ Exhausted(1)
  /\ pulls[1] = 1
  /\ received[1] = << >>

\* The characters of a message of the corpus.
CharsOf(msg) == MESSAGE_CHARS[CHOOSE k \in 1..Len(MESSAGES) : MESSAGES[k] = msg]

\* str::contains: needle occurs in hay as a contiguous run of characters.
Contains(hay, needle) ==
  \E off \in 0..(Len(hay) - Len(needle)) :
    \A j \in 1..Len(needle) : hay[off + j] = needle[j]

Research == << "r", "e", "s", "e", "a", "r", "c", "h" >>

Team == << "t", "e", "a", "m" >>

\* C6: in every row written into a batch, message_matches_research is true
\* exactly when the row's message contains "research" and
\* message_matches_team exactly when it contains "team".
C6_DerivedFromMessage ==
  \A k \in 1..Len(received[1]) :
    LET cols == received[1][k].columns
    IN  \A j \in 1..Len(cols[2]) :
          /\ cols[3][j] = Contains(CharsOf(cols[2][j]), Research)
          /\ cols[4][j] = Contains(CharsOf(cols[2][j]), Team)

\* C7: the record generated with index id has severity (id mod 5) + 1, one
\* of 1..5.
C7_Severity ==
  probe_rec # NoRecord =>
    /\ probe_rec.id = probe_id
    /\ probe_rec.severity = (probe_id % 5) + 1
    /\ probe_rec.severity \in 1..5

C7_Witness ==
  /\ probe_id = 249
  /\ probe_rec # NoRecord
  /\ probe_rec.severity = 5

\* C8: the record of index id has timestamp base + 86400 * (id mod 731),
\* within [base, base + 86400 * 730]; the sum stays below 2^31, far from
\* the end of u64.
C8_Timestamp ==
  probe_rec # NoRecord =>
    /\ probe_rec.id = probe_id
    /\ probe_rec.timestamp = 1577836800 + 86400 * (probe_id % 731)
    /\ probe_rec.timestamp >= 1577836800
    /\ probe_rec.timestamp <= 1577836800 + 86400 * 730
    /\ probe_rec.timestamp <= I32_MAX

C8_Witness ==
  /\ probe_id = 731
  /\ probe_rec # NoRecord
  /\ probe_rec.timestamp = 1577836800

\* C9: generation is deterministic and index-local.  Of two runs, with any
\* row counts, chunk sizes and interleaving of pulls, the records of the
\* same id are equal, each run's records so far are a prefix of the other's
\* or the reverse, and runs of the same n that have ended yielded the same
\* sequence.
C9_Deterministic ==
  /\ \A a \in 1..Len(yielded[1]) : \A b \in 1..Len(yielded[2]) :
        yielded[1][a].id = yielded[2][b].id => yielded[1][a] = yielded[2][b]
  /\ \A k \in 1..Len(yielded[1]) :
        k <= Len(yielded[2]) => yielded[1][k] = yielded[2][k]
  /\ (num_rows[1] = num_rows[2] /\ gen_done[1] /\ gen_done[2]) =>
        yielded[1] = yielded[2]

C9_Witness ==
  /\ num_rows[1] = 2
  /\ num_rows[2] = 2
  /\ chunk_size[1] = 1
  /\ chunk_size[2] = 2
  /\ gen_done[1]
  /\ gen_done[2]
  /\ pulls[1] = 3
  /\ pulls[2] = 2
  /\ Len(yielded[1]) = 2
  /\ yielded[1] = yielded[2]

\* C10: the records generated and not yet handed over in a batch are the
\* ones the pipeline holds, at most C of them, and a record of chunk k is
\* generated only when the batches of the k chunks before it were yielded.
C10_BoundedBuffering ==
  /\ Buffered(1) <= chunk_size[1]
  /\ Buffered(1) = Len(yielded[1]) - SumLens(received[1])
  /\ \A k \in 1..Len(yielded[1]) :
        yielded[1][k].id \div chunk_size[1] <= Len(received[1])

C10_Witness ==
  /\ chunk_size[1] = 2
  /\ pc[1] = "building"
  /\ Len(received[1]) = 1
  /\ Len(yielded[1]) = 4
  /\ Buffered(1) = 2

\* The steps the stream body takes by itself, inside a poll.
BodyStep(s) == ChunksPush(s) \/ ChunksEnd(s) \/ AppendRow(s) \/ YieldBatch(s)

\* C11: the pipeline moves only inside a pull.  Between the item that
\* answers a pull and the next pull no step of the body is possible, so a
\* consumer that stops pulling stops the generator and the builder; the
\* records generated number at most C per pull and the batches at most one
\* per pull.
C11_PullDriven ==
  /\ Len(yielded[1]) <= chunk_size[1] * pulls[1]
  /\ Len(received[1]) <= pulls[1]
  /\ pc[1] \in {"start", "suspended", "done"} => ~ENABLED BodyStep(1)
  /\ pc[1] = "suspended" =>
       /\ Buffered(1) = 0
       /\ Len(yielded[1]) = SumLens(received[1])

C11_Witness ==
  /\ num_rows[1] = 5
  /\ chunk_size[1] = 2
  /\ pc[1] = "suspended"
  /\ pulls[1] = 2
  /\ Len(received[1]) = 2
  /\ Len(yielded[1]) = 4

(***************************************************************************)
(* Failures while a chunk is built.  append_scalar_value and               *)
(* StructArray::try_new_with_dtype return a Result, and every call is      *)
(* followed by `?`.  Inside stream! a `?` on an Err sends Err(e) to the    *)
(* consumer as the next item, suspends there, and returns from the body    *)
(* when it is polled again.  With the dtypes of lines 68-77 and the values *)
(* of a BenchmarkLog the calls do not fail, so the failures are inputs of  *)
(* a specification of their own.                                           *)
(***************************************************************************)
ErrItem(what) == [ err |-> what ]

IsErr(item) == "err" \in DOMAIN item

\* The body sends the error and is suspended at the send.
SendErr(s, what) ==
  /\ received' = [received EXCEPT ![s] = Append(@, ErrItem(what))]
  /\ pc' = [pc EXCEPT ![s] = "errored"]
  /\ UNCHANGED << num_rows, chunk_size, gen_i, gen_done, yielded, items,
                  chunk, chunk_len, builders, pulls, end_polls, probe_id,
                  probe_rec, castVars, benchVars >>

\* AppendRowFails with the failed row left out and the loop going on.
AppendRowFails_SkipsRow(s) ==
  /\ pc[s] = "building"
  /\ chunk[s] # << >>
  /\ chunk' = [chunk EXCEPT ![s] = Tail(@)]
  /\ UNCHANGED << num_rows, chunk_size, pc, gen_i, gen_done, yielded, items,
                  chunk_len, builders, received, pulls, end_polls, probe_id,
                  probe_rec, castVars, benchVars >>

\* builders[k].append_scalar_value(...)? fails for the next row.
AppendRowFails(s) ==
  /\ pc[s] = "building"
  /\ chunk[s] # << >>
  /\ SendErr(s, "append_scalar_value")

\* StructArray::try_new_with_dtype(...)? fails.
YieldBatchFails(s) ==
  /\ pc[s] = "building"
  /\ chunk[s] = << >>
  /\ SendErr(s, "try_new_with_dtype")

\* The poll after the error: the body returns, its locals are dropped and
\* the stream has ended.
ResumeAfterError(s) ==
  /\ pc[s] = "errored"
  /\ pc' = [pc EXCEPT ![s] = "done"]
  /\ pulls' = [pulls EXCEPT ![s] = @ + 1]
  /\ items' = [items EXCEPT ![s] = << >>]
  /\ chunk' = [chunk EXCEPT ![s] = << >>]
  /\ builders' = [builders EXCEPT ![s] = NoBuilders]
  /\ UNCHANGED << num_rows, chunk_size, gen_i, gen_done, yielded, chunk_len,
                  received, end_polls, probe_id, probe_rec, castVars,
                  benchVars >>

InitSmall ==
  /\ InitPipes(0..SmallMaxRows, 1..SmallMaxChunk)
  /\ Idle(2)
  /\ probe_id = 0
  /\ probe_rec = NoRecord
  /\ CastIdle
  /\ BenchIdle

NextErr ==
  \/ Step(1)
  \/ PullAfterEnd(1)
  \/ AppendRowFails(1)
  \/ YieldBatchFails(1)
  \/ ResumeAfterError(1)

SpecErr == InitSmall /\ [][NextErr]_vars

\* Has the stream delivered an error?
Failed(s) == \E k \in 1..Len(received[s]) : IsErr(received[s][k])

\* C12: a failure while a chunk is built ends the stream.  The error is the
\* last item the stream delivers; the chunk it occurred in is not yielded;
\* every batch that was yielded is a whole chunk (all its rows, in order,
\* none skipped); once the error is sent no step of the body is possible,
\* and the next poll ends the stream.
C12_FailureIsTerminal ==
  LET bs == received[1]
      C  == chunk_size[1]
      n  == num_rows[1]
  IN  /\ \A k \in 1..Len(bs) : IsErr(bs[k]) => k = Len(bs)
      /\ \A k \in 1..Len(bs) : ~IsErr(bs[k]) =>
            /\ bs[k].len = (IF n - (k - 1) * C < C THEN n - (k - 1) * C ELSE C)
            /\ \A c \in 1..Len(bs[k].columns) :
                  Len(bs[k].columns[c]) = bs[k].len
            /\ \A j \in 1..Len(bs[k].columns[1]) :
                  bs[k].columns[1][j] = (k - 1) * C + (j - 1)
      /\ pc[1] = "errored" =>
            /\ Failed(1)
            /\ ~ENABLED (BodyStep(1) \/ AppendRowFails(1) \/ YieldBatchFails(1))
      /\ (Failed(1) /\ pc[1] # "errored") => pc[1] = "done"
      /\ (pc[1] = "done" /\ ~Failed(1)) =>
            Len(ConcatColumn(bs, 1)) = n

C12_Witness ==
  /\ num_rows[1] = 4
  /\ chunk_size[1] = 2
  /\ pc[1] = "errored"
  /\ Len(received[1]) = 2
  /\ ~IsErr(received[1][1])
  /\ received[1][2] = ErrItem("append_scalar_value")
  /\ BuilderRows(1) = 1

(***************************************************************************)
(* CHUNK_SIZE = 0.  row_array_stream checks nothing when it is called: it  *)
(* builds the stream and returns it.  `.chunks(CHUNK_SIZE)` is the first   *)
(* statement of the stream body, so it runs in the first poll, where       *)
(* Chunks::new asserts capacity > 0 and panics.                            *)
(***************************************************************************)
ChunksPanic(s) ==
  /\ pc[s] = "start"
  /\ chunk_size[s] = 0
  /\ pc' = [pc EXCEPT ![s] = "panicked"]
  /\ pulls' = [pulls EXCEPT ![s] = @ + 1]
  /\ UNCHANGED << num_rows, chunk_size, gen_i, gen_done, yielded, items,
                  chunk, chunk_len, builders, received, end_polls,
                  probe_id, probe_rec, castVars, benchVars >>

InitConfig ==
  /\ InitPipes(0..SmallMaxRows, 0..SmallMaxChunk)
  /\ Idle(2)
  /\ probe_id = 0
  /\ probe_rec = NoRecord
  /\ CastIdle
  /\ BenchIdle

NextConfig == Step(1) \/ PullAfterEnd(1) \/ ChunksPanic(1)

SpecConfig == InitConfig /\ [][NextConfig]_vars

Range(f) == { f[x] : x \in DOMAIN f }

Min(a, b) == IF a < b THEN a ELSE b

\* The batches pipeline s has delivered are the ones its own row count and
\* chunk size give: batch k holds the records of ids (k-1)*C .. in order,
\* each primary column the field of that record.  (The two derived columns
\* are whatever the reads of the missing fields gave.)
OwnBatches(s) ==
  LET bs == received[s]
      C  == chunk_size[s]
      n  == num_rows[s]
  IN  /\ \A k \in 1..Len(bs) :
            /\ bs[k].len = Min(C, n - (k - 1) * C)
            /\ \A c \in 1..Len(bs[k].columns) :
                  Len(bs[k].columns[c]) = bs[k].len
            /\ \A j \in 1..bs[k].len :
                  LET r    == LogRecord((k - 1) * C + (j - 1))
                      cols == bs[k].columns
                  IN  /\ cols[1][j] = r.id
                      /\ cols[2][j] = r.message
                      /\ cols[3][j] \in BOOLEAN
                      /\ cols[4][j] \in BOOLEAN
                      /\ cols[5][j] = r.country
                      /\ cols[6][j] = r.severity
                      /\ cols[7][j] = r.timestamp
                      /\ cols[8][j] = r.metadata
      /\ Len(bs) <= CeilDiv(n, C)
      /\ Exhausted(s) => Len(bs) = CeilDiv(n, C)

\* C14: two pipelines pulled in any interleaving each deliver the batch
\* sequence of their own row count and chunk size, whatever the other one
\* has done.
C14_Independent == \A s \in Streams : OwnBatches(s)

C14_Witness ==
  /\ num_rows[1] = 2
  /\ chunk_size[1] = 1
  /\ num_rows[2] = 2
  /\ chunk_size[2] = 2
  /\ pc[1] = "building"
  /\ Len(received[1]) = 1
  /\ pc[2] = "building"
  /\ BuilderRows(2) = 1

\* C15: the record of index id has message MESSAGES[id mod 10] and country
\* COUNTRIES[id mod 10] (0-based), both tables have 10 entries, the index
\* is within them, and id 0 has the first message and the first country.
C15_TableLookups ==
  /\ Len(MESSAGES) = 10
  /\ Len(COUNTRIES) = 10
  /\ probe_rec # NoRecord =>
       /\ (probe_id % 10) + 1 \in DOMAIN MESSAGES
       /\ (probe_id % 10) + 1 \in DOMAIN COUNTRIES
       /\ probe_rec.message = MESSAGES[(probe_id % 10) + 1]
       /\ probe_rec.country = COUNTRIES[(probe_id % 10) + 1]
       /\ probe_id = 0 =>
            /\ probe_rec.message = Head(MESSAGES)
            /\ probe_rec.country = "United States"

C15_Witness ==
  /\ probe_id = 19
  /\ probe_rec # NoRecord
  /\ probe_rec.country = "China"
  /\ probe_rec.message = MESSAGES[10]

\* C16: every yielded batch has the 8 columns of the schema in its order,
\* every column as long as the batch's row count, every value of the type
\* of its column; a chunk's builders start empty, and the rows of batch k
\* are those of chunk k alone.
C16_SchemaAndFreshBuilders ==
  LET bs == received[1]
      C  == chunk_size[1]
  IN  /\ \A k \in 1..Len(bs) :
            LET cols == bs[k].columns
            IN  /\ bs[k].names =
                     << "id", "message", "message_matches_research",
                        "message_matches_team", "country", "severity",
                        "timestamp", "metadata" >>
                /\ Len(cols) = 8
                /\ \A c \in 1..Len(cols) : Len(cols[c]) = bs[k].len
                /\ \A j \in 1..bs[k].len :
                      /\ cols[1][j] \in ((k - 1) * C)..(k * C - 1)
                      /\ cols[2][j] \in Range(MESSAGES)
                      /\ cols[3][j] \in BOOLEAN
                      /\ cols[4][j] \in BOOLEAN
                      /\ cols[5][j] \in Range(COUNTRIES)
                      /\ cols[6][j] \in 1..5
                      /\ cols[7][j] \in Nat
                      /\ cols[7][j] = LogRecord(cols[1][j]).timestamp
                      /\ cols[8][j] = LogRecord(cols[1][j]).metadata
      /\ pc[1] = "building" =>
            /\ Len(builders[1]) = 8
            /\ \A c \in 1..8 :
                  Len(builders[1][c]) + Len(chunk[1]) = chunk_len[1]

C16_Witness ==
  /\ chunk_size[1] = 2
  /\ pc[1] = "building"
  /\ Len(received[1]) = 2
  /\ received[1][2].columns[1] = << 2, 3 >>
  /\ BuilderRows(1) = 1
  /\ builders[1][1] = << 4 >>

(***************************************************************************)
(* A consumer that keeps pulling.  Everything between a pull and the item  *)
(* that answers it is straight-line code inside the poll, so a step that   *)
(* is possible is taken: weak fairness of the pipeline's steps.            *)
(***************************************************************************)
SpecLive == InitSmall /\ [][Next]_vars /\ WF_vars(Step(1))

\* C17: with a consumer that keeps pulling the stream ends, for every row
\* count; the pull after the batch that holds id n-1 (the first pull when
\* n = 0) finds the generator at its end and the buffer empty and reports
\* the end; the stream then stays ended and delivers nothing more.
C17_Terminates ==
  /\ <>Exhausted(1)
  /\ [][Exhausted(1) =>
          (Exhausted(1)' /\ received' = received /\ yielded' = yielded)]_vars
  /\ [][(pc[1] = "polling" /\ items[1] = << >>
           /\ SumLens(received[1]) = num_rows[1]) =>
          (Exhausted(1)' /\ received' = received)]_vars
  /\ [](Exhausted(1) => SumLens(received[1]) = num_rows[1])

C17_Witness ==
  /\ num_rows[1] = 3
  /\ chunk_size[1] = 2
  /\ Exhausted(1)
  /\ end_polls[1] = 1
  /\ ConcatColumn(received[1], 1) = << 0, 1, 2 >>
  /\ pulls[1] = 3

(***************************************************************************)
(* `num_rows as usize` on values of the full u64 range.  A u64 is written  *)
(* as its four 16-bit digits, least significant first (the integers of the *)
(* checker end at 2^31 - 1).  The cast keeps the low bits that fit usize,  *)
(* which is 64 or 32 bits wide depending on the target the crate is built  *)
(* for; the source fixes none.                                             *)
(***************************************************************************)
UsizeWidths == {32, 64}

U64Samples == [1..4 -> {0, 1, 65535}]

AsUsizeOf(x, bits) == [k \in 1..4 |-> IF 16 * k <= bits THEN x[k] ELSE 0]

InitCast ==
  /\ InitPipes({0}, {1})
  /\ probe_id = 0
  /\ probe_rec = NoRecord
  /\ cast_bits \in UsizeWidths
  /\ cast_in \in U64Samples
  /\ cast_out = << >>
  /\ BenchIdle

\* 0..(num_rows as usize): the end of the loop's range.
Cast ==
  /\ cast_out = << >>
  /\ cast_out' = AsUsizeOf(cast_in, cast_bits)
  /\ UNCHANGED << pipeVars, probe_id, probe_rec, cast_bits, cast_in,
                  benchVars >>

NextCast == Cast

SpecCast == InitCast /\ [][NextCast]_vars

\* C18: the integer conversions of generate_logs lose nothing: the loop's
\* bound `num_rows as usize` is num_rows for every u64, the id of a record
\* is its loop index, and severity and the metadata value, computed through
\* `as i32`, are the values (i mod 5) + 1 and (i mod 1000) + 1, within i32.
C18_CastsLoseNothing ==
  /\ cast_out # << >> => cast_out = cast_in
  /\ \A i \in 0..MaxProbeId :
        /\ LogRecord(i).id = i
        /\ Severity(i) = (i % 5) + 1
        /\ MetadataValue(i) = (i % 1000) + 1
        /\ Severity(i) <= I32_MAX
        /\ MetadataValue(i) <= I32_MAX

(***************************************************************************)
(* main.rs: run_queries and run_query.  What a run of a query returns      *)
(* (the length of the collected result, or an error) is the query          *)
(* engine's: an input of each step.                                        *)
(***************************************************************************)
RUNS_PER_QUERY == 10

\* The entries of `queries`, main.rs:132-187.
NumQueries == 14

InitBench ==
  /\ InitPipes({0}, {1})
  /\ probe_id = 0
  /\ probe_rec = NoRecord
  /\ CastIdle
  /\ query = 1
  /\ count = << >>
  /\ results = << >>
  /\ printed = << >>
  /\ bench_pc = "running"

\* RunQuery that stores the new count instead of comparing it.
RunQuery_NoAssert ==
  /\ bench_pc = "running"
  /\ Len(results) < RUNS_PER_QUERY
  /\ \E current_count \in 0..MaxCount :
       /\ results' = Append(results, current_count)
       /\ count' = << current_count >>
       /\ UNCHANGED bench_pc
  /\ UNCHANGED << pipeVars, probe_id, probe_rec, castVars, query, printed >>

\* One iteration of `for _ in 0..RUNS_PER_QUERY` whose query succeeds: the
\* first count is kept, a later one is compared with it by assert_eq!.
RunQuery ==
  /\ bench_pc = "running"
  /\ Len(results) < RUNS_PER_QUERY
  /\ \E current_count \in 0..MaxCount :
       /\ results' = Append(results, current_count)
       /\ IF count = << >>
            THEN count' = << current_count >> /\ UNCHANGED bench_pc
            ELSE /\ UNCHANGED count
                 /\ bench_pc' = IF count[1] = current_count
                                  THEN "running" ELSE "panicked"
  /\ UNCHANGED << pipeVars, probe_id, probe_rec, castVars, query, printed >>

\* ctx.sql(..).await? or .collect().await? gives an error: run_query returns
\* it, and so do run_queries (`?` at line 189) and main.
RunFails ==
  /\ bench_pc = "running"
  /\ Len(results) < RUNS_PER_QUERY
  /\ bench_pc' = "failed"
  /\ UNCHANGED << pipeVars, probe_id, probe_rec, castVars, query, count,
                  results, printed >>

\* The loop of run_query is over: println!, return Ok(()), and run_queries
\* goes to the next entry of the list or returns.
PrintSummary ==
  /\ bench_pc = "running"
  /\ Len(results) = RUNS_PER_QUERY
  /\ printed' = Append(printed, query)
  /\ count' = << >>
  /\ results' = << >>
  /\ IF query < NumQueries
       THEN query' = query + 1 /\ UNCHANGED bench_pc
       ELSE bench_pc' = "finished" /\ UNCHANGED query
  /\ UNCHANGED << pipeVars, probe_id, probe_rec, castVars >>

NextBench == RunQuery \/ RunFails \/ PrintSummary

SpecBench == InitBench /\ [][NextBench]_vars

Agree(rs) == \A k \in 1..Len(rs) : rs[k] = rs[1]

\* C19: the queries run one after another in list order, each at most
\* RUNS_PER_QUERY = 10 times; while the program goes on every run of the
\* current query returned the count of its first run; a query's summary is
\* printed only when its 10 runs agreed, and only then does the next query
\* start; a differing count or a failed run stops the program, with no
\* later query run and no further line printed.
C19_BenchmarkOrder ==
  /\ [](/\ RUNS_PER_QUERY = 10
        /\ query \in 1..NumQueries
        /\ Len(results) <= RUNS_PER_QUERY
        /\ printed = [k \in 1..Len(printed) |-> k]
        /\ Len(printed) = (IF bench_pc = "finished" THEN query ELSE query - 1)
        /\ bench_pc # "panicked" => Agree(results)
        /\ bench_pc = "panicked" =>
             /\ Len(results) >= 2
             /\ results[Len(results)] # results[1]
             /\ Agree(SubSeq(results, 1, Len(results) - 1))
        /\ (results # << >>) => count = << results[1] >>
        /\ bench_pc \in {"panicked", "failed", "finished"} =>
             ~ENABLED NextBench)
  /\ [][/\ printed' # printed =>
             /\ bench_pc = "running"
             /\ Len(results) = RUNS_PER_QUERY
             /\ Agree(results)
             /\ printed' = Append(printed, query)
        /\ query' # query =>
             /\ query' = query + 1
             /\ printed' = Append(printed, query)
        /\ Len(results') = Len(results) + 1 =>
             /\ query' = query
             /\ printed' = printed]_vars

C19_Witness ==
  /\ bench_pc = "panicked"
  /\ query = 2
  /\ printed = << 1 >>
  /\ results = << 1, 1, 0 >>

====
